---- MODULE Spec2Model ----
(***************************************************************************)
(* A model of the filediff action (src/index.ts, the current version that  *)
(* starts at line 230): getFileStats, getBranchStats, getCommonStringStart,*)
(* getStatComment and run.                                                 *)
(*                                                                         *)
(* Strings whose characters matter (paths, branch names) are sequences of  *)
(* one-character strings, so that split, slice, startsWith and sort are    *)
(* computed as JavaScript computes them.                                   *)
(***************************************************************************)
EXTENDS Integers, Sequences, FiniteSets, TLC

\* ------------------------------------------------------------------------
\* Bounds of the model
\* ------------------------------------------------------------------------

\* files per BranchStats handed to getStatComment
MaxFiles == 3

\* ------------------------------------------------------------------------
\* JavaScript strings
\* ------------------------------------------------------------------------

\* UTF-16 code unit of the characters the model uses (Array.prototype.sort
\* without a comparator orders strings by code unit).
CharCode(c) ==
  CASE c = "." -> 46
    [] c = "/" -> 47
    [] c = "a" -> 97
    [] c = "b" -> 98
    [] c = "c" -> 99
    [] c = "d" -> 100
    [] c = "e" -> 101
    [] c = "f" -> 102
    [] c = "j" -> 106
    [] c = "m" -> 109
    [] c = "s" -> 115
    [] c = "w" -> 119
    [] OTHER -> 0

\* s.slice(from) with 0-based from
SliceFrom(s, from) == SubSeq(s, from + 1, Len(s))

\* s.slice(0, to) with 0-based exclusive to
SliceTo(s, to) == SubSeq(s, 1, to)

\* s.startsWith(p)
StartsWith(s, p) == Len(p) <= Len(s) /\ SubSeq(s, 1, Len(p)) = p

\* length of the longest common prefix of a and b
RECURSIVE CommonLen(_, _, _)
CommonLen(a, b, i) ==
  IF i < Len(a) /\ i < Len(b) /\ a[i + 1] = b[i + 1]
    THEN CommonLen(a, b, i + 1)
    ELSE i

\* a < b in the order of Array.prototype.sort() (code units, shorter first)
StrLess(a, b) ==
  LET k == CommonLen(a, b, 0) IN
    IF k = Len(a) THEN Len(a) < Len(b)
    ELSE IF k = Len(b) THEN FALSE
    ELSE CharCode(a[k + 1]) < CharCode(b[k + 1])

\* s.lastIndexOf(c), 0-based, -1 when absent
LastIndexOf(s, c) ==
  LET hits == {i \in 1..Len(s) : s[i] = c} IN
    IF hits = {} THEN -1
    ELSE (CHOOSE i \in hits : \A j \in hits : j <= i) - 1

\* s.indexOf(sep, from), 0-based, -1 when absent
IndexOf(s, sep, from) ==
  LET hits == {i \in from..(Len(s) - Len(sep)) :
                 SubSeq(s, i + 1, i + Len(sep)) = sep} IN
    IF hits = {} THEN -1
    ELSE CHOOSE i \in hits : \A j \in hits : i <= j

\* ------------------------------------------------------------------------
\* prettyBytes (pretty-bytes, as getStatComment uses it)
\* ------------------------------------------------------------------------

\* prettyBytes with zero signed like a positive number
prettyBytes_ZeroIsPlus(n, signed) ==
  [prefix |-> IF n < 0 THEN "-" ELSE IF signed THEN "+" ELSE "",
   digits |-> IF n < 0 THEN -n ELSE n,
   unit   |-> "B"]

\* prettyBytes(n) and prettyBytes(n, {signed: true}) for |n| < 1000: the text
\* is <prefix><digits> B, the prefix being "-" for a negative number and,
\* when signed, "+" for a positive one and a blank for zero.
prettyBytes(n, signed) ==
  [prefix |-> IF n < 0 THEN "-"
              ELSE IF signed THEN (IF n = 0 THEN " " ELSE "+")
              ELSE "",
   digits |-> IF n < 0 THEN -n ELSE n,
   unit   |-> "B"]

\* getDiff with the operands swapped
getDiff_Swapped(a, b) == prettyBytes(b - a, TRUE)

\* const getDiff = (a, b) => prettyBytes(a - b, {signed: true})
getDiff(a, b) == prettyBytes(a - b, TRUE)

\* the number a rendered byte text stands for
BytesValue(t) == IF t.prefix = "-" THEN -t.digits ELSE t.digits

\* ------------------------------------------------------------------------
\* BranchStats
\* ------------------------------------------------------------------------

\* BranchStats.files is a JavaScript object: a list of (key, value) entries in
\* insertion order, no key twice.  An entry is [path, size, gzip, brotli].
EmptyStats == [totalSize |-> 0, totalBrotli |-> 0, totalGzip |-> 0, files |-> <<>>]

\* Object.keys(stats.files), in order
Keys(files) == [i \in 1..Len(files) |-> files[i].path]

KeySet(files) == {files[i].path : i \in 1..Len(files)}

\* stats.files[filePath] is not undefined
HasFile(files, filePath) == \E i \in 1..Len(files) : files[i].path = filePath

\* stats.files[filePath], when it is defined
FileAt(files, filePath) ==
  files[CHOOSE i \in 1..Len(files) : files[i].path = filePath]

\* stats.files[filePath] = value: a new key is appended, an existing key keeps
\* its place and gets the new value
SetFile(files, filePath, value) ==
  LET e == [path |-> filePath, size |-> value.size, gzip |-> value.gzip,
            brotli |-> value.brotli] IN
    IF HasFile(files, filePath)
      THEN [i \in 1..Len(files) |->
              IF files[i].path = filePath THEN e ELSE files[i]]
      ELSE Append(files, e)

\* ------------------------------------------------------------------------
\* getCommonStringStart
\* ------------------------------------------------------------------------

\* sortedStrings[0] and sortedStrings[length - 1] of strings.slice().sort()
SortedFirst(strings) == CHOOSE s \in strings : \A t \in strings : ~StrLess(t, s)

\* sortedStrings[1]: the second string of the sorted array, not its last
SortedLast_Second(strings) == SortedFirst(strings \ {SortedFirst(strings)})

SortedLast(strings) == CHOOSE s \in strings : \A t \in strings : ~StrLess(s, t)

\* strings: the elements of the array (getStatComment passes the elements of
\* a Set, so they are distinct and strings.length is their number)
getCommonStringStart(strings) ==
  IF Cardinality(strings) < 2 THEN <<>>
  ELSE LET first == SortedFirst(strings)
           last  == SortedLast(strings)
           diffs == {i \in 0..(Len(first) - 1) :
                       i >= Len(last) \/ first[i + 1] # last[i + 1]}
       IN IF diffs = {} THEN first
          ELSE SliceTo(first, CHOOSE i \in diffs : \A j \in diffs : i <= j)

\* the common start used as it is, not cut back to the last "/"
CommonFilePath_NotCut(allFilePaths) == getCommonStringStart(allFilePaths)

\* commonStart.slice(0, commonStart.lastIndexOf('/') + 1)
CommonFilePath(allFilePaths) ==
  LET commonStart == getCommonStringStart(allFilePaths) IN
    SliceTo(commonStart, LastIndexOf(commonStart, "/") + 1)

\* ------------------------------------------------------------------------
\* getStatComment
\* ------------------------------------------------------------------------

commentHash == "<!-- @alex-page was here -->"

\* one cell of a table: <sub>{cur} `{diff}`</sub>
Cell(cur, diff) == [cur |-> cur, diff |-> diff]

\* the keys of prStats.files alone
AllFilePaths_PrOnly(targetStats, prStats) == KeySet(prStats.files)

\* new Set([...Object.keys(prStats.files), ...Object.keys(targetStats.files)])
AllFilePaths(targetStats, prStats) ==
  KeySet(prStats.files) \cup KeySet(targetStats.files)

\* the first forEach comparing every metric instead of size alone
PrRow_AnyMetric(e, targetStats, commonFilePath) ==
  IF ~HasFile(targetStats.files, e.path)
    THEN <<[name   |-> SliceFrom(e.path, Len(commonFilePath)),
            strike |-> FALSE,
            size   |-> Cell(prettyBytes(e.size, FALSE), prettyBytes(e.size, TRUE)),
            gzip   |-> Cell(prettyBytes(e.gzip, FALSE), prettyBytes(e.gzip, TRUE)),
            brotli |-> Cell(prettyBytes(e.brotli, FALSE), prettyBytes(e.brotli, TRUE))]>>
  ELSE LET targetFile == FileAt(targetStats.files, e.path) IN
    IF e.size # targetFile.size \/ e.gzip # targetFile.gzip
         \/ e.brotli # targetFile.brotli
      THEN <<[name   |-> SliceFrom(e.path, Len(commonFilePath)),
              strike |-> FALSE,
              size   |-> Cell(prettyBytes(e.size, FALSE), getDiff(e.size, targetFile.size)),
              gzip   |-> Cell(prettyBytes(e.gzip, FALSE), getDiff(e.gzip, targetFile.gzip)),
              brotli |-> Cell(prettyBytes(e.brotli, FALSE),
                              getDiff(e.brotli, targetFile.brotli))]>>
      ELSE <<>>

\* the row the first forEach pushes for entry e of prStats.files, if any
\* (name: the text between <sub> and </sub>; strike: written between ~ ~)
PrRow(e, targetStats, commonFilePath) ==
  IF ~HasFile(targetStats.files, e.path)
    THEN <<[name   |-> SliceFrom(e.path, Len(commonFilePath)),
            strike |-> FALSE,
            size   |-> Cell(prettyBytes(e.size, FALSE), prettyBytes(e.size, TRUE)),
            gzip   |-> Cell(prettyBytes(e.gzip, FALSE), prettyBytes(e.gzip, TRUE)),
            brotli |-> Cell(prettyBytes(e.brotli, FALSE), prettyBytes(e.brotli, TRUE))]>>
  ELSE LET targetFile == FileAt(targetStats.files, e.path) IN
    IF e.size # targetFile.size
      THEN <<[name   |-> SliceFrom(e.path, Len(commonFilePath)),
              strike |-> FALSE,
              size   |-> Cell(prettyBytes(e.size, FALSE), getDiff(e.size, targetFile.size)),
              gzip   |-> Cell(prettyBytes(e.gzip, FALSE), getDiff(e.gzip, targetFile.gzip)),
              brotli |-> Cell(prettyBytes(e.brotli, FALSE),
                              getDiff(e.brotli, targetFile.brotli))]>>
      ELSE <<>>

\* the second forEach without its test that the PR lacks the file
TargetRow_NoTest(e, prStats, commonFilePath) ==
  <<[name   |-> SliceFrom(e.path, Len(commonFilePath)),
     strike |-> TRUE,
     size   |-> Cell(prettyBytes(0, FALSE), prettyBytes(-1 * e.size, TRUE)),
     gzip   |-> Cell(prettyBytes(0, FALSE), prettyBytes(-1 * e.gzip, TRUE)),
     brotli |-> Cell(prettyBytes(0, FALSE), prettyBytes(-1 * e.brotli, TRUE))]>>

\* the row the second forEach pushes for entry e of targetStats.files, if any
TargetRow(e, prStats, commonFilePath) ==
  IF ~HasFile(prStats.files, e.path)
    THEN <<[name   |-> SliceFrom(e.path, Len(commonFilePath)),
            strike |-> TRUE,
            size   |-> Cell(prettyBytes(0, FALSE), prettyBytes(-1 * e.size, TRUE)),
            gzip   |-> Cell(prettyBytes(0, FALSE), prettyBytes(-1 * e.gzip, TRUE)),
            brotli |-> Cell(prettyBytes(0, FALSE), prettyBytes(-1 * e.brotli, TRUE))]>>
    ELSE <<>>

RECURSIVE PrRows(_, _, _, _)
PrRows(files, i, targetStats, commonFilePath) ==
  IF i > Len(files) THEN <<>>
  ELSE PrRow(files[i], targetStats, commonFilePath)
         \o PrRows(files, i + 1, targetStats, commonFilePath)

RECURSIVE TargetRows(_, _, _, _)
TargetRows(files, i, prStats, commonFilePath) ==
  IF i > Len(files) THEN <<>>
  ELSE TargetRow(files[i], prStats, commonFilePath)
         \o TargetRows(files, i + 1, prStats, commonFilePath)

\* fileTotals after the two loops
FileTotals(targetStats, prStats) ==
  [changed |-> Cardinality({i \in 1..Len(prStats.files) :
                 /\ HasFile(targetStats.files, prStats.files[i].path)
                 /\ prStats.files[i].size #
                      FileAt(targetStats.files, prStats.files[i].path).size}),
   removed |-> Cardinality({i \in 1..Len(targetStats.files) :
                 ~HasFile(prStats.files, targetStats.files[i].path)}),
   added   |-> Cardinality({i \in 1..Len(prStats.files) :
                 ~HasFile(targetStats.files, prStats.files[i].path)})]

pluralize(count, single, plural) == IF count = 1 THEN single ELSE plural

\* detailsSummaryText: one entry `${n} ${phrase}` per non-zero total
DetailsSummaryText(fileTotals) ==
  (IF fileTotals.changed # 0
     THEN <<[n |-> fileTotals.changed,
             text |-> pluralize(fileTotals.changed, "file changed", "files changed")]>>
     ELSE <<>>)
  \o (IF fileTotals.added # 0
     THEN <<[n |-> fileTotals.added,
             text |-> pluralize(fileTotals.added, "file added", "files added")]>>
     ELSE <<>>)
  \o (IF fileTotals.removed # 0
     THEN <<[n |-> fileTotals.removed,
             text |-> pluralize(fileTotals.removed, "file removed", "files removed")]>>
     ELSE <<>>)

\* sep written before every element, the first one too
RECURSIVE Join_SepBeforeEach(_, _)
Join_SepBeforeEach(parts, sep) ==
  IF Len(parts) = 0 THEN <<>>
  ELSE <<[n |-> 0, text |-> sep], parts[1]>> \o Join_SepBeforeEach(Tail(parts), sep)

\* Array.prototype.join: the elements with sep between neighbours
RECURSIVE Join(_, _)
Join(parts, sep) ==
  IF Len(parts) = 0 THEN <<>>
  ELSE IF Len(parts) = 1 THEN <<parts[1]>>
  ELSE <<parts[1], [n |-> 0, text |-> sep]>> \o Join(Tail(parts), sep)

\* The returned template string: the marker it begins with, then what the
\* rest of the template is filled with.
getStatComment(targetStats, prStats, open) ==
  LET totalDiff == [size   |-> getDiff(prStats.totalSize, targetStats.totalSize),
                    gzip   |-> getDiff(prStats.totalGzip, targetStats.totalGzip),
                    brotli |-> getDiff(prStats.totalBrotli, targetStats.totalBrotli)]
      commonFilePath == CommonFilePath(AllFilePaths(targetStats, prStats))
      fileColumns == PrRows(prStats.files, 1, targetStats, commonFilePath)
                       \o TargetRows(targetStats.files, 1, prStats, commonFilePath)
  IN << commentHash,
        [verb    |-> IF totalDiff.size.prefix = "+" THEN "added" ELSE "removed",
         totals  |-> [size   |-> Cell(prettyBytes(prStats.totalSize, FALSE),
                                      totalDiff.size),
                      gzip   |-> Cell(prettyBytes(prStats.totalGzip, FALSE),
                                      totalDiff.gzip),
                      brotli |-> Cell(prettyBytes(prStats.totalBrotli, FALSE),
                                      totalDiff.brotli)],
         open    |-> open,
         summary |-> Join(DetailsSummaryText(FileTotals(targetStats, prStats)), ", "),
         commonFilePath |-> commonFilePath,
         fileColumns    |-> fileColumns] >>

\* ------------------------------------------------------------------------
\* run: the file changes it logs (lines 487-510)
\* ------------------------------------------------------------------------

\* [...allFilePaths]: the keys of prStats.files, then the keys of
\* targetStats.files that prStats.files lacks
AllFilePathsSeq(targetStats, prStats) ==
  Keys(prStats.files)
    \o SelectSeq(Keys(targetStats.files), LAMBDA k : ~HasFile(prStats.files, k))

FileChanges(targetStats, prStats) ==
  LET all == AllFilePathsSeq(targetStats, prStats) IN
  [added    |-> SelectSeq(all, LAMBDA k : ~HasFile(targetStats.files, k)),
   removed  |-> SelectSeq(all, LAMBDA k : /\ HasFile(targetStats.files, k)
                                          /\ ~HasFile(prStats.files, k)),
   modified |-> SelectSeq(all, LAMBDA k : /\ HasFile(targetStats.files, k)
                                          /\ HasFile(prStats.files, k)
                                          /\ FileAt(prStats.files, k).size #
                                               FileAt(targetStats.files, k).size)]

\* ------------------------------------------------------------------------
\* State
\* ------------------------------------------------------------------------

VARIABLES
  env,            \* process.env.GITHUB_TOKEN is set
  payload,        \* github.context.payload has a repository and a pull_request
  replaceComment, \* getInput('replace_comment')
  fileDetailsOpen,\* getInput('file_details_open')
  script,         \* getInput('pre_diff_script'), split on && (its commands)
  root,           \* the absolute path '../.filediff' resolves to
  branch,         \* branch[b]: the branch name of getBranchStats call b
  pc,             \* where run is
  bpc,            \* bpc[b]: where getBranchStats call b is
  step,           \* step[b]: commands of the script call b has run
  files,          \* files[b]: what globby returned to call b
  task,           \* task[b][i]: state of getFileStats(files[b][i], ...)
  branchStats,    \* branchStats[b]: the BranchStats object of call b
  thrown,         \* thrown[b]: the error call b rejected with, <<>> if none
  execs,          \* execs[b]: the exec(...) calls of call b, in order, each
                  \* with its cwd option
  targetStats,    \* run: targetStats, <<>> until getBranchStats has returned it
  prStats,        \* run: prStats, likewise
  fileChanges,    \* run: fileChanges, <<>> until computed
  commentBody,    \* run: commentBody, <<>> until getStatComment has returned it
  commonStart,    \* getStatComment: commonStart, <<>> until it is computed
  comments,       \* the comments of the pull request, oldest first (what
                  \* it holds does not matter to run before its first API
                  \* call, and is settled when run decides to make it)
  prior,          \* the comments the pull request held at that moment
  calls,          \* the octokit.rest.issues calls run has made, in order
  cursor,         \* run: comments.data and the position of its for loop
  failed          \* the messages given to setFailed, in order

inputVars == <<env, payload, replaceComment, fileDetailsOpen, script, root, branch>>
branchVars == <<bpc, step, files, task, branchStats, thrown, execs>>
runVars == <<pc, targetStats, prStats, fileChanges, commentBody, commonStart, comments, prior,
             calls, cursor, failed>>
vars == <<inputVars, branchVars, runVars>>

\* the two getBranchStats calls of run
Slots == {"target", "pr"}

\* ------------------------------------------------------------------------
\* getFileStats and getBranchStats
\* ------------------------------------------------------------------------

\* file.split(`${branch}/`).slice(1)[0]: the text between the first and the
\* second occurrence of the branch name followed by "/" (to the end of the
\* path when there is no second one); undefined, which as an object key is
\* the text "undefined", when there is no occurrence
FilePathKey(file, branchName) ==
  LET sep   == branchName \o <<"/">>
      i1    == IndexOf(file, sep, 0)
      start == i1 + Len(sep)
      i2    == IndexOf(file, sep, start)
  IN IF i1 = -1 THEN <<"u", "n", "d", "e", "f", "i", "n", "e", "d">>
     ELSE SubSeq(file, start + 1, IF i2 = -1 THEN Len(file) ELSE i2)

\* lines 271-281 of getFileStats: what one task does to branchStats once its
\* reads and compressions are done (no await in between)
AddFileStats(stats, f, branchName) ==
  [totalSize   |-> stats.totalSize + f.size,
   totalGzip   |-> stats.totalGzip + f.gzip,
   totalBrotli |-> stats.totalBrotli + f.brotli,
   files       |-> SetFile(stats.files, FilePathKey(f.file, branchName),
                           [size |-> f.size, gzip |-> f.gzip, brotli |-> f.brotli])]

\* const cwd = `../${tempDir}/${branch}`, made absolute
Cwd(b) == root \o <<"/">> \o branch[b]

\* an await of getBranchStats b rejects: the call rejects with that error
Throw(b, error) ==
  /\ bpc' = [bpc EXCEPT ![b] = "thrown"]
  /\ thrown' = [thrown EXCEPT ![b] = <<error>>]

\* exec(cmdName, cmdArgs, {cwd}) is called by call b; ok: it resolves (the
\* command exits with 0), otherwise it rejects
Exec(b, cmd, ok) ==
  execs' = [execs EXCEPT ![b] = Append(@, [cmd |-> cmd, cwd |-> Cwd(b), ok |-> ok])]

\* await fs.promises.cp('.', cwd, {recursive: true})
Copy(b) ==
  /\ bpc[b] = "cp"
  /\ \/ /\ bpc' = [bpc EXCEPT ![b] = "fetch"]
        /\ UNCHANGED thrown
     \/ Throw(b, "cp")
  /\ UNCHANGED <<step, files, task, branchStats, execs>>
  /\ UNCHANGED <<inputVars, runVars>>

\* await exec('git', ['fetch', 'origin', branch], {cwd})
Fetch(b) ==
  /\ bpc[b] = "fetch"
  /\ \/ /\ Exec(b, "git fetch", TRUE)
        /\ bpc' = [bpc EXCEPT ![b] = "checkout"]
        /\ UNCHANGED thrown
     \/ /\ Exec(b, "git fetch", FALSE)
        /\ Throw(b, "git fetch")
  /\ UNCHANGED <<step, files, task, branchStats>>
  /\ UNCHANGED <<inputVars, runVars>>

\* await exec('git', ['checkout', branch], {cwd}), then if (script)
Checkout(b) ==
  /\ bpc[b] = "checkout"
  /\ \/ /\ Exec(b, "git checkout", TRUE)
        /\ bpc' = [bpc EXCEPT ![b] = IF Len(script) > 0 THEN "build" ELSE "glob"]
        /\ UNCHANGED thrown
     \/ /\ Exec(b, "git checkout", FALSE)
        /\ Throw(b, "git checkout")
  /\ UNCHANGED <<step, files, task, branchStats>>
  /\ UNCHANGED <<inputVars, runVars>>

\* the loop goes on to its next command when one has failed
Build_KeepsGoing(b) ==
  /\ bpc[b] = "build"
  /\ \E ok \in BOOLEAN : Exec(b, script[step[b] + 1], ok)
  /\ step' = [step EXCEPT ![b] = step[b] + 1]
  /\ bpc' = [bpc EXCEPT ![b] = IF step[b] + 1 = Len(script) THEN "glob" ELSE "build"]
  /\ UNCHANGED thrown
  /\ UNCHANGED <<files, task, branchStats>>
  /\ UNCHANGED <<inputVars, runVars>>

\* one turn of for (const cmd of commands) await exec(cmdName, cmdArgs, {cwd})
Build(b) ==
  /\ bpc[b] = "build"
  /\ \/ /\ Exec(b, script[step[b] + 1], TRUE)
        /\ step' = [step EXCEPT ![b] = step[b] + 1]
        /\ bpc' = [bpc EXCEPT ![b] = IF step[b] + 1 = Len(script) THEN "glob" ELSE "build"]
        /\ UNCHANGED thrown
     \/ /\ Exec(b, script[step[b] + 1], FALSE)
        /\ Throw(b, script[step[b] + 1])
        /\ UNCHANGED step
  /\ UNCHANGED <<files, task, branchStats>>
  /\ UNCHANGED <<inputVars, runVars>>

\* what globby returns to call b for the files of disk: their absolute paths,
\* here with the metrics getFileStats will measure
Found(b, disk) ==
  [i \in 1..Len(disk) |->
     [file   |-> Cwd(b) \o <<"/">> \o disk[i].path,
      size   |-> disk[i].size,
      gzip   |-> disk[i].gzip,
      brotli |-> disk[i].brotli]]

\* globby(dirGlob.split(','), {cwd, absolute: true}) finds the files of
\* disk (relative paths with the metrics of their contents); then lines
\* 307-328: the BranchStats object is created and getFileStats is started
\* for every file, each running up to its first await
Glob(b, disks) ==
  /\ bpc[b] = "glob"
  /\ \/ \E disk \in disks :
          /\ files' = [files EXCEPT ![b] = Found(b, disk)]
          /\ task' = [task EXCEPT ![b] = [i \in 1..Len(disk) |-> "waiting"]]
          /\ branchStats' = [branchStats EXCEPT ![b] = EmptyStats]
          /\ bpc' = [bpc EXCEPT ![b] = "stats"]
          /\ UNCHANGED thrown
     \/ /\ Throw(b, "globby")
        /\ UNCHANGED <<files, task, branchStats>>
  /\ UNCHANGED <<step, execs>>
  /\ UNCHANGED <<inputVars, runVars>>

\* getFileStats(files[b][i], branch, branchStats) gets past its awaits (stat,
\* readFile, gzip, brotliCompress) and runs lines 271-281, or one of the
\* awaits rejects.  Tasks are not cancelled when the call has rejected.
FileStats(b, i) ==
  /\ i \in 1..Len(task[b])
  /\ task[b][i] = "waiting"
  /\ \/ /\ branchStats' = [branchStats EXCEPT ![b] =
                             AddFileStats(branchStats[b], files[b][i], branch[b])]
        /\ task' = [task EXCEPT ![b][i] = "done"]
     \/ /\ task' = [task EXCEPT ![b][i] = "failed"]
        /\ UNCHANGED branchStats
  /\ UNCHANGED <<bpc, step, files, thrown, execs>>
  /\ UNCHANGED <<inputVars, runVars>>

\* await Promise.all(...) rejects once a task has rejected
Reject(b) ==
  /\ bpc[b] = "stats"
  /\ \E i \in 1..Len(task[b]) : task[b][i] = "failed"
  /\ Throw(b, "getFileStats")
  /\ UNCHANGED <<step, files, task, branchStats, execs>>
  /\ UNCHANGED <<inputVars, runVars>>

\* branchStats is returned with the tasks started and not awaited
Return_NotAwaited(b) ==
  /\ bpc[b] = "stats"
  /\ bpc' = [bpc EXCEPT ![b] = "returned"]
  /\ UNCHANGED <<step, files, task, branchStats, thrown, execs>>
  /\ UNCHANGED <<inputVars, runVars>>

\* the call returns once every task has settled, rejected ones included
Return_Settled(b) ==
  /\ bpc[b] = "stats"
  /\ \A i \in 1..Len(task[b]) : task[b][i] # "waiting"
  /\ bpc' = [bpc EXCEPT ![b] = "returned"]
  /\ UNCHANGED <<step, files, task, branchStats, thrown, execs>>
  /\ UNCHANGED <<inputVars, runVars>>

\* await Promise.all(...) resolves once every task has; return branchStats
Return(b) ==
  /\ bpc[b] = "stats"
  /\ \A i \in 1..Len(task[b]) : task[b][i] = "done"
  /\ bpc' = [bpc EXCEPT ![b] = "returned"]
  /\ UNCHANGED <<step, files, task, branchStats, thrown, execs>>
  /\ UNCHANGED <<inputVars, runVars>>

\* ------------------------------------------------------------------------
\* One call of getBranchStats on its own
\* ------------------------------------------------------------------------

\* files a glob finds in one workspace
MaxStatFiles == 2

\* commands of a pre_diff_script
MaxSteps == 1

\* commands of the pre_diff_script of a getBranchStats call on its own
MaxStatSteps == 2

\* where '../.filediff' is: "/w", "/m/w"
Roots == { <<"/", "w">>, <<"/", "m", "/", "w">> }

\* branch names: "m", "f"
Branches == { <<"m">>, <<"f">> }

\* paths inside a workspace: "a", "d/m/a", "d/m/b", "dm/a"
RelPaths ==
  << <<"a">>,
     <<"d", "/", "m", "/", "a">>,
     <<"d", "/", "m", "/", "b">>,
     <<"d", "m", "/", "a">> >>

StatMetrics ==
  { [size |-> 1, gzip |-> 1, brotli |-> 1],
    [size |-> 2, gzip |-> 3, brotli |-> 1] }

\* the entries of paths (a sequence) picked by idx, carrying the metrics m
RECURSIVE EntriesOf(_, _, _, _)
EntriesOf(paths, idx, m, i) ==
  IF i > Len(paths) THEN <<>>
  ELSE (IF i \in idx
          THEN <<[path |-> paths[i], size |-> m[i].size, gzip |-> m[i].gzip,
                  brotli |-> m[i].brotli]>>
          ELSE <<>>) \o EntriesOf(paths, idx, m, i + 1)

\* what a workspace can hold under the glob: up to max of the paths, in the
\* order globby lists them, each with the metrics of its content
DisksOf(paths, metrics, max) ==
  { EntriesOf(paths, idx, m, 1) :
      idx \in {x \in SUBSET (1..Len(paths)) : Cardinality(x) <= max},
      m \in [1..Len(paths) -> metrics] }

StatDisks == DisksOf(RelPaths, StatMetrics, MaxStatFiles)

\* script.split('&&').map((cmd) => cmd.trim()), for scripts of 0..max commands
ScriptsUpTo(max) ==
  { [i \in 1..n |-> IF i = 1 THEN "npm ci" ELSE "npm run build"] : n \in 0..max }

InitStats ==
  /\ env = TRUE
  /\ payload = TRUE
  /\ replaceComment = "true"
  /\ fileDetailsOpen = "false"
  /\ script \in ScriptsUpTo(MaxStatSteps)
  /\ root \in Roots
  /\ branch \in [Slots -> Branches]
  /\ branch["pr"] = <<"f">>
  /\ pc = "getBranchStats"
  /\ bpc = [b \in Slots |-> IF b = "target" THEN "cp" ELSE "idle"]
  /\ step = [b \in Slots |-> 0]
  /\ files = [b \in Slots |-> <<>>]
  /\ task = [b \in Slots |-> <<>>]
  /\ branchStats = [b \in Slots |-> EmptyStats]
  /\ thrown = [b \in Slots |-> <<>>]
  /\ execs = [b \in Slots |-> <<>>]
  /\ comments = <<>>
  /\ prior = <<>>
  /\ calls = <<>>
  /\ cursor = [data |-> <<>>, i |-> 0]
  /\ failed = <<>>
  /\ targetStats = <<>>
  /\ prStats = <<>>
  /\ fileChanges = <<>>
  /\ commentBody = <<>>
  /\ commonStart = <<>>

NextStats ==
  \/ Copy("target")
  \/ Fetch("target")
  \/ Checkout("target")
  \/ Build("target")
  \/ Glob("target", StatDisks)
  \/ \E i \in 1..MaxStatFiles : FileStats("target", i)
  \/ Reject("target")
  \/ Return("target")

SpecStats == InitStats /\ [][NextStats]_vars

\* ------------------------------------------------------------------------
\* getStatComment and the change log of run, applied to pairs of BranchStats
\* ------------------------------------------------------------------------

\* "a/b/c.js", "a/b/d.js", "a/e.js", "ab.js"
RenderPaths ==
  << <<"a", "/", "b", "/", "c", ".", "j", "s">>,
     <<"a", "/", "b", "/", "d", ".", "j", "s">>,
     <<"a", "/", "e", ".", "j", "s">>,
     <<"a", "b", ".", "j", "s">> >>

\* size, gzip and brotli of a file
Metrics ==
  { [size |-> 1, gzip |-> 1, brotli |-> 1],
    [size |-> 1, gzip |-> 2, brotli |-> 1],
    [size |-> 3, gzip |-> 2, brotli |-> 2] }

RECURSIVE SumOf(_, _, _)
SumOf(entries, i, field) ==
  IF i > Len(entries) THEN 0
  ELSE (CASE field = "size" -> entries[i].size
          [] field = "gzip" -> entries[i].gzip
          [] OTHER -> entries[i].brotli) + SumOf(entries, i + 1, field)

\* a BranchStats whose totals are the sums over its entries
StatsOf(entries) ==
  [totalSize   |-> SumOf(entries, 1, "size"),
   totalBrotli |-> SumOf(entries, 1, "brotli"),
   totalGzip   |-> SumOf(entries, 1, "gzip"),
   files       |-> entries]

StatsChoices ==
  { StatsOf(EntriesOf(RenderPaths, idx, m, 1)) :
      idx \in {x \in SUBSET (1..Len(RenderPaths)) : Cardinality(x) <= MaxFiles},
      m \in [1..Len(RenderPaths) -> Metrics] }

InitComment ==
  /\ env = TRUE
  /\ payload = TRUE
  /\ replaceComment = "true"
  /\ fileDetailsOpen = "false"
  /\ script = <<>>
  /\ root = <<"/">>
  /\ branch = [b \in Slots |-> <<"m">>]
  /\ pc = "getStatComment"
  /\ bpc = [b \in Slots |-> "idle"]
  /\ step = [b \in Slots |-> 0]
  /\ files = [b \in Slots |-> <<>>]
  /\ task = [b \in Slots |-> <<>>]
  /\ branchStats = [b \in Slots |-> EmptyStats]
  /\ thrown = [b \in Slots |-> <<>>]
  /\ execs = [b \in Slots |-> <<>>]
  /\ comments = <<>>
  /\ prior = <<>>
  /\ calls = <<>>
  /\ cursor = [data |-> <<>>, i |-> 0]
  /\ failed = <<>>
  /\ targetStats \in {<<t>> : t \in StatsChoices}
  /\ prStats \in {<<t>> : t \in StatsChoices}
  /\ fileChanges = <<>>
  /\ commentBody = <<>>
  /\ commonStart = <<>>

\* run, lines 487-510
LogFileChanges ==
  /\ fileChanges = <<>>
  /\ fileChanges' = <<FileChanges(targetStats[1], prStats[1])>>
  /\ UNCHANGED <<targetStats, prStats, commentBody, commonStart, pc, comments, prior, calls, cursor, failed>>
  /\ UNCHANGED <<inputVars, branchVars>>

\* getStatComment(targetStats, prStats, fileDetailsOpen)
RenderComment ==
  /\ fileChanges # <<>>
  /\ commentBody = <<>>
  /\ \E open \in BOOLEAN :
       commentBody' = <<getStatComment(targetStats[1], prStats[1], open)>>
  /\ commonStart' = <<getCommonStringStart(AllFilePaths(targetStats[1], prStats[1]))>>
  /\ UNCHANGED <<targetStats, prStats, fileChanges, pc, comments, prior, calls, cursor, failed>>
  /\ UNCHANGED <<inputVars, branchVars>>

NextComment == LogFileChanges \/ RenderComment

SpecComment == InitComment /\ [][NextComment]_vars

\* ------------------------------------------------------------------------
\* run
\* ------------------------------------------------------------------------

\* comments one response of GET /repos/{owner}/{repo}/issues/{n}/comments
\* holds when the request names no per_page, as the call of line 549 does
PerPage == 30

\* comments.data of octokit.rest.issues.listComments({owner, repo,
\* issue_number}): the first page of the comments, oldest first
ListCommentsData(all) == SubSeq(all, 1, IF Len(all) < PerPage THEN Len(all) ELSE PerPage)

\* comment.body?.startsWith(commentHash)
StartsWithHash(comment) ==
  comment.hasBody /\ Len(comment.body) > 0 /\ comment.body[1] = commentHash

\* the for loop of lines 556-565 advances over data from position i to the
\* next comment it deletes; Len(data) + 1 when there is none
NextToDelete(data, i) ==
  LET hits == {j \in i..Len(data) : StartsWithHash(data[j])} IN
    IF hits = {} THEN Len(data) + 1 ELSE CHOOSE j \in hits : \A k \in hits : j <= k

\* comments of the pull request that follow the first PerPage - 1
MaxTail == 2

\* bodies of earlier comments: a report of an earlier run, a remark, none
PriorBodies ==
  { [hasBody |-> TRUE, body |-> <<commentHash, "report">>],
    [hasBody |-> TRUE, body |-> <<"LGTM">>],
    [hasBody |-> FALSE, body |-> <<>>] }

\* the comments a pull request can hold before a run posts: none or PerPage - 1
\* remarks, then up to MaxTail more comments; ids ascend
PriorComments ==
  { [i \in 1..(k + n) |->
       IF i <= k THEN [id |-> i, hasBody |-> TRUE, body |-> <<"LGTM">>]
       ELSE [id |-> i, hasBody |-> tail[i - k].hasBody, body |-> tail[i - k].body]] :
      k \in {0, PerPage - 1}, n \in 0..MaxTail, tail \in [1..MaxTail -> PriorBodies] }

\* the objects themselves compared, not their totalSize
TotalsIdentical_WholeStats(target, pr) == target = pr

\* targetStats.totalSize === prStats.totalSize
TotalsIdentical(target, pr) == target.totalSize = pr.totalSize

\* the input tested for being a non-empty string
ReplaceRequested_Truthy == replaceComment # ""

\* replaceComment === 'true'
ReplaceRequested == replaceComment = "true"

\* the failure is reported and the failed operation is left to be tried again
Catch_TryAgain(message) ==
  /\ failed' = Append(failed, message)
  /\ pc' = pc

\* catch (error) { setFailed(error.message) }
Catch(message) ==
  /\ failed' = Append(failed, message)
  /\ pc' = "done"

\* lines 574-585 up to the call of createComment
RenderAndPost ==
  /\ commentBody' = <<getStatComment(branchStats["target"], branchStats["pr"],
                                      fileDetailsOpen = "true")>>
  /\ commonStart' = <<getCommonStringStart(AllFilePaths(branchStats["target"],
                                                        branchStats["pr"]))>>
  /\ pc' = "createComment"

\* the token is taken for present without a look at the environment
TokenMissing_Unchecked == FALSE

\* if (!token), token being process.env.GITHUB_TOKEN
TokenMissing == ~env

\* lines 452-475: the token, the payload, the inputs, and the two
\* getBranchStats calls, each started and running up to its first await
Start ==
  /\ pc = "start"
  /\ IF TokenMissing
       THEN /\ Catch("Missing required environment variables: GITHUB_TOKEN")
            /\ UNCHANGED bpc
       ELSE IF ~payload
         THEN /\ pc' = "done"
              /\ UNCHANGED <<bpc, failed>>
         ELSE /\ pc' = "getBranchStats"
              /\ bpc' = [b \in Slots |-> "cp"]
              /\ UNCHANGED failed
  /\ UNCHANGED <<step, files, task, branchStats, thrown, execs>>
  /\ UNCHANGED <<targetStats, prStats, fileChanges, commentBody, commonStart, comments, prior, calls, cursor>>
  /\ UNCHANGED inputVars

\* Promise.all of line 472 resolves; lines 477-544, then either the early
\* return, or the call of listComments, or getStatComment and the call of
\* createComment
Compare ==
  /\ pc = "getBranchStats"
  /\ \A b \in Slots : bpc[b] = "returned"
  /\ targetStats' = <<branchStats["target"]>>
  /\ prStats' = <<branchStats["pr"]>>
  /\ fileChanges' = <<FileChanges(branchStats["target"], branchStats["pr"])>>
  /\ IF TotalsIdentical(branchStats["target"], branchStats["pr"])
       THEN /\ pc' = "done"
            /\ UNCHANGED <<commentBody, commonStart, comments, prior>>
       ELSE /\ \E held \in PriorComments : comments' = held /\ prior' = held
            /\ IF ReplaceRequested
                 THEN pc' = "listComments" /\ UNCHANGED <<commentBody, commonStart>>
                 ELSE RenderAndPost
  /\ UNCHANGED <<calls, cursor, failed>>
  /\ UNCHANGED <<inputVars, branchVars>>

\* Promise.all of line 472 rejects: a getBranchStats call has thrown
CatchBranch ==
  /\ pc = "getBranchStats"
  /\ \E b \in Slots :
       /\ bpc[b] = "thrown"
       /\ Catch(thrown[b][1])
  /\ UNCHANGED <<targetStats, prStats, fileChanges, commentBody, commonStart, comments, prior, calls, cursor>>
  /\ UNCHANGED <<inputVars, branchVars>>

\* await octokit.rest.issues.listComments(...), then the loop up to its
\* first deleteComment, or past its end to createComment
ListComments ==
  /\ pc = "listComments"
  /\ calls' = Append(calls, [api |-> "listComments", id |-> 0])
  /\ \/ LET data == ListCommentsData(comments)
            j == NextToDelete(data, 1)
        IN /\ cursor' = [data |-> data, i |-> j]
           /\ IF j <= Len(data)
                THEN pc' = "deleteComment" /\ UNCHANGED <<commentBody, commonStart>>
                ELSE RenderAndPost
           /\ UNCHANGED failed
     \/ /\ Catch("listComments")
        /\ UNCHANGED <<cursor, commentBody, commonStart>>
  /\ UNCHANGED <<targetStats, prStats, fileChanges, comments, prior>>
  /\ UNCHANGED <<inputVars, branchVars>>

\* await octokit.rest.issues.deleteComment({comment_id: comment.id}), then
\* the loop up to its next deleteComment, or past its end to createComment
DeleteComment ==
  /\ pc = "deleteComment"
  /\ LET id == cursor.data[cursor.i].id IN
       /\ calls' = Append(calls, [api |-> "deleteComment", id |-> id])
       /\ \/ LET j == NextToDelete(cursor.data, cursor.i + 1) IN
               /\ comments' = SelectSeq(comments, LAMBDA c : c.id # id)
               /\ cursor' = [cursor EXCEPT !.i = j]
               /\ IF j <= Len(cursor.data)
                    THEN pc' = "deleteComment" /\ UNCHANGED <<commentBody, commonStart>>
                    ELSE RenderAndPost
               /\ UNCHANGED failed
          \/ /\ Catch("deleteComment")
             /\ UNCHANGED <<comments, cursor, commentBody, commonStart>>
  /\ UNCHANGED <<targetStats, prStats, fileChanges, prior>>
  /\ UNCHANGED <<inputVars, branchVars>>

\* the id GitHub gives the next comment of the pull request: one no comment
\* has had, all being the comments it held before the run
NewId(all) == IF Len(all) = 0 THEN 1 ELSE all[Len(all)].id + 1

\* await octokit.rest.issues.createComment({..., body: commentBody})
CreateComment ==
  /\ pc = "createComment"
  /\ calls' = Append(calls, [api |-> "createComment", id |-> 0])
  /\ \/ /\ comments' = Append(comments, [id |-> NewId(prior), hasBody |-> TRUE,
                                         body |-> commentBody[1]])
        /\ pc' = "done"
        /\ UNCHANGED failed
     \/ /\ Catch("createComment")
        /\ UNCHANGED comments
  /\ UNCHANGED <<targetStats, prStats, fileChanges, commentBody, commonStart, prior, cursor>>
  /\ UNCHANGED <<inputVars, branchVars>>

\* ------------------------------------------------------------------------
\* A run of the action
\* ------------------------------------------------------------------------

\* files a glob finds in one workspace during a run
MaxRunFiles == 1

\* "a", "d/m/a"
RunPaths == SubSeq(RelPaths, 1, 2)

RunDisks == DisksOf(RunPaths, StatMetrics, MaxRunFiles)

Init ==
  /\ env \in BOOLEAN
  /\ payload \in BOOLEAN
  /\ replaceComment \in {"true", "false"}
  /\ fileDetailsOpen \in {"true", "false"}
  /\ script \in ScriptsUpTo(MaxSteps)
  /\ root = <<"/", "w">>
  /\ branch = [b \in Slots |-> IF b = "target" THEN <<"m">> ELSE <<"f">>]
  /\ pc = "start"
  /\ bpc = [b \in Slots |-> "idle"]
  /\ step = [b \in Slots |-> 0]
  /\ files = [b \in Slots |-> <<>>]
  /\ task = [b \in Slots |-> <<>>]
  /\ branchStats = [b \in Slots |-> EmptyStats]
  /\ thrown = [b \in Slots |-> <<>>]
  /\ execs = [b \in Slots |-> <<>>]
  /\ comments = <<>>
  /\ prior = <<>>
  /\ calls = <<>>
  /\ cursor = [data |-> <<>>, i |-> 0]
  /\ failed = <<>>
  /\ targetStats = <<>>
  /\ prStats = <<>>
  /\ fileChanges = <<>>
  /\ commentBody = <<>>
  /\ commonStart = <<>>

Next ==
  \/ Start
  \/ \E b \in Slots :
       \/ Copy(b)
       \/ Fetch(b)
       \/ Checkout(b)
       \/ Build(b)
       \/ Glob(b, RunDisks)
       \/ \E i \in 1..MaxRunFiles : FileStats(b, i)
       \/ Reject(b)
       \/ Return(b)
  \/ Compare
  \/ CatchBranch
  \/ ListComments
  \/ DeleteComment
  \/ CreateComment

Spec == Init /\ [][Next]_vars

\* ------------------------------------------------------------------------
\* Runs for every pair of target_branch and head.ref
\* ------------------------------------------------------------------------

\* lines 461 and 466: prBranch is pull_request.head.ref and targetBranch is
\* the input target_branch; the head of a pull request from a fork can be
\* named like the target branch
InitRefs ==
  /\ env = TRUE
  /\ payload = TRUE
  /\ replaceComment \in {"true", "false"}
  /\ fileDetailsOpen = "false"
  /\ script \in ScriptsUpTo(MaxSteps)
  /\ root = <<"/", "w">>
  /\ branch \in [Slots -> Branches]
  /\ pc = "start"
  /\ bpc = [b \in Slots |-> "idle"]
  /\ step = [b \in Slots |-> 0]
  /\ files = [b \in Slots |-> <<>>]
  /\ task = [b \in Slots |-> <<>>]
  /\ branchStats = [b \in Slots |-> EmptyStats]
  /\ thrown = [b \in Slots |-> <<>>]
  /\ execs = [b \in Slots |-> <<>>]
  /\ comments = <<>>
  /\ prior = <<>>
  /\ calls = <<>>
  /\ cursor = [data |-> <<>>, i |-> 0]
  /\ failed = <<>>
  /\ targetStats = <<>>
  /\ prStats = <<>>
  /\ fileChanges = <<>>
  /\ commentBody = <<>>
  /\ commonStart = <<>>

SpecRefs == InitRefs /\ [][Next]_vars

\* ------------------------------------------------------------------------
\* The report of a run whose PR branch holds several files
\* ------------------------------------------------------------------------

\* the BranchStats the first n getFileStats tasks build when they get to
\* lines 271-281 in the order of found
RECURSIVE StatsAfter(_, _, _)
StatsAfter(found, n, branchName) ==
  IF n = 0 THEN EmptyStats
  ELSE AddFileStats(StatsAfter(found, n - 1, branchName), found[n], branchName)

\* paths inside the workspace of the target branch: "a", "am/a"
ReportPaths == << <<"a">>, <<"a", "m", "/", "a">> >>

ReportDisks == DisksOf(ReportPaths, StatMetrics, MaxStatFiles)

\* the exec calls of a getBranchStats call that got to globby
ExecsDone(b) ==
  [i \in 1..(2 + Len(script)) |->
     [cmd |-> IF i = 1 THEN "git fetch" ELSE IF i = 2 THEN "git checkout" ELSE script[i - 2],
      cwd |-> Cwd(b),
      ok  |-> TRUE]]

\* run is at the Promise.all of line 472; the call for the target branch has
\* returned (its tasks ended in the order of its files) and the call for the
\* PR branch has not got past its first await yet
InitReport ==
  /\ env = TRUE
  /\ payload = TRUE
  /\ replaceComment = "false"
  /\ fileDetailsOpen = "false"
  /\ script \in ScriptsUpTo(MaxSteps)
  /\ root = <<"/", "w">>
  /\ branch = [b \in Slots |-> IF b = "target" THEN <<"m">> ELSE <<"f">>]
  /\ pc = "getBranchStats"
  /\ bpc = [b \in Slots |-> IF b = "target" THEN "returned" ELSE "cp"]
  /\ step = [b \in Slots |-> IF b = "target" THEN Len(script) ELSE 0]
  /\ \E disk \in ReportDisks :
       files = [b \in Slots |-> IF b = "target" THEN Found(b, disk) ELSE <<>>]
  /\ task = [b \in Slots |-> [i \in 1..Len(files[b]) |-> "done"]]
  /\ branchStats = [b \in Slots |-> StatsAfter(files[b], Len(files[b]), branch[b])]
  /\ thrown = [b \in Slots |-> <<>>]
  /\ execs = [b \in Slots |-> IF b = "target" THEN ExecsDone(b) ELSE <<>>]
  /\ comments = <<>>
  /\ prior = <<>>
  /\ calls = <<>>
  /\ cursor = [data |-> <<>>, i |-> 0]
  /\ failed = <<>>
  /\ targetStats = <<>>
  /\ prStats = <<>>
  /\ fileChanges = <<>>
  /\ commentBody = <<>>
  /\ commonStart = <<>>

NextReport ==
  \/ Copy("pr")
  \/ Fetch("pr")
  \/ Checkout("pr")
  \/ Build("pr")
  \/ Glob("pr", StatDisks)
  \/ \E i \in 1..MaxStatFiles : FileStats("pr", i)
  \/ Reject("pr")
  \/ Return("pr")
  \/ Compare
  \/ CatchBranch

SpecReport == InitReport /\ [][NextReport]_vars

\* ------------------------------------------------------------------------
\* The classification of section 3 of the specification, stated on the two
\* file sets alone
\* ------------------------------------------------------------------------

TS == targetStats[1]
PS == prStats[1]

UnionPaths == KeySet(PS.files) \cup KeySet(TS.files)

IsAdded(p) == p \in KeySet(PS.files) /\ p \notin KeySet(TS.files)

IsRemoved(p) == p \in KeySet(TS.files) /\ p \notin KeySet(PS.files)

InBoth(p) == p \in KeySet(PS.files) /\ p \in KeySet(TS.files)

IsModified(p) == InBoth(p) /\ FileAt(PS.files, p).size # FileAt(TS.files, p).size

IsUnchanged(p) == InBoth(p) /\ FileAt(PS.files, p).size = FileAt(TS.files, p).size

Rendered == commentBody # <<>>

\* the rows of comment c that show path p
RowsOf(c, p) ==
  {i \in 1..Len(c.fileColumns) :
     c.fileColumns[i].name = SliceFrom(p, Len(c.commonFilePath))}

RowOf(c, p) == c.fileColumns[CHOOSE i \in RowsOf(c, p) : TRUE]

\* the count the collapsible label shows for a verb ("changed", ...), 0 when
\* the label has no entry for it
LabelCount(c, single, plural) ==
  LET hits == {i \in 1..Len(c.summary) : c.summary[i].text \in {single, plural}} IN
    IF hits = {} THEN 0 ELSE c.summary[CHOOSE i \in hits : TRUE].n

SeqRange(q) == {q[i] : i \in 1..Len(q)}

NoRepeat(q) == Cardinality(SeqRange(q)) = Len(q)

\* ------------------------------------------------------------------------
\* Claims about getStatComment (checked under SpecComment)
\* ------------------------------------------------------------------------

\* C4: every path of the union is in exactly one of Added, Removed, Modified,
\* Unchanged; the rows and counts of getStatComment and the added / removed /
\* modified lists of run agree with that classification, and no path gets
\* more than one row.
C4_ClassificationAgrees ==
  /\ Rendered =>
       LET c == commentBody[1][2] IN
         /\ \A p \in UnionPaths :
              /\ Cardinality(RowsOf(c, p)) = IF IsUnchanged(p) THEN 0 ELSE 1
              /\ IsRemoved(p) => RowOf(c, p).strike
              /\ (IsAdded(p) \/ IsModified(p)) => ~RowOf(c, p).strike
         /\ Len(c.fileColumns) = Cardinality({p \in UnionPaths : ~IsUnchanged(p)})
         /\ LabelCount(c, "file changed", "files changed")
              = Cardinality({p \in UnionPaths : IsModified(p)})
         /\ LabelCount(c, "file added", "files added")
              = Cardinality({p \in UnionPaths : IsAdded(p)})
         /\ LabelCount(c, "file removed", "files removed")
              = Cardinality({p \in UnionPaths : IsRemoved(p)})
  /\ fileChanges # <<>> =>
       LET f == fileChanges[1] IN
         /\ SeqRange(f.added) = {p \in UnionPaths : IsAdded(p)}
         /\ SeqRange(f.removed) = {p \in UnionPaths : IsRemoved(p)}
         /\ SeqRange(f.modified) = {p \in UnionPaths : IsModified(p)}
         /\ NoRepeat(f.added \o f.removed \o f.modified)

\* C4 witness: both the comment and the change log are computed for a pair
\* with an added, a removed, a modified and an unchanged path.
C4_Witness ==
  /\ Rendered
  /\ fileChanges # <<>>
  /\ \E p \in UnionPaths : IsAdded(p)
  /\ \E p \in UnionPaths : IsRemoved(p)
  /\ \E p \in UnionPaths : IsModified(p)
  /\ \E p \in UnionPaths : IsUnchanged(p)

\* C5: a file present in both file sets with equal size, whatever its gzip
\* and brotli sizes, gets no row and is not counted as changed, added or
\* removed.
C5_UnchangedSuppressed ==
  Rendered =>
    LET c == commentBody[1][2]
        unchanged == {p \in UnionPaths : IsUnchanged(p)}
    IN /\ \A p \in unchanged : RowsOf(c, p) = {}
       /\ LabelCount(c, "file changed", "files changed")
            + LabelCount(c, "file added", "files added")
            + LabelCount(c, "file removed", "files removed")
            = Cardinality(UnionPaths \ unchanged)

\* C5 witness: a rendered comment for a pair where some file has the same
\* size and a different gzip size in the two branches, next to a changed one.
C5_Witness ==
  /\ Rendered
  /\ \E p \in UnionPaths :
       IsUnchanged(p) /\ FileAt(PS.files, p).gzip # FileAt(TS.files, p).gzip
  /\ \E p \in UnionPaths : IsModified(p)

\* the longest string that is a prefix of every path of S and is empty or
\* ends at a "/"
DirPrefix(S) ==
  LET p0 == CHOOSE p \in S : TRUE
      ok == {k \in 0..Len(p0) :
               /\ \A p \in S : StartsWith(p, SliceTo(p0, k))
               /\ (k = 0 \/ p0[k] = "/")}
  IN SliceTo(p0, CHOOSE k \in ok : \A j \in ok : j <= k)

\* C8 as stated: for every non-empty union set, sets of one path included,
\* the common prefix is the longest directory-aligned prefix of every path.
C8_PrefixOfAnySet ==
  (Rendered /\ UnionPaths # {}) =>
    commentBody[1][2].commonFilePath = DirPrefix(UnionPaths)

\* C8 amended: for every union set of at least two paths the common prefix is
\* the longest prefix of every path that is empty or ends at "/"; for a set
\* of fewer than two paths it is empty.
C8_PrefixOfTwoOrMore ==
  Rendered =>
    commentBody[1][2].commonFilePath =
      IF Cardinality(UnionPaths) >= 2 THEN DirPrefix(UnionPaths) ELSE <<>>

\* C8 witness: the comment for the union {a/b/c.js, a/b/d.js, a/e.js} has
\* the common prefix "a/".
C8_Witness ==
  /\ Rendered
  /\ UnionPaths = {RenderPaths[1], RenderPaths[2], RenderPaths[3]}
  /\ commentBody[1][2].commonFilePath = <<"a", "/">>

\* the numbers of the three cells of a row
RowNumbers(r) ==
  [cur  |-> [size |-> BytesValue(r.size.cur), gzip |-> BytesValue(r.gzip.cur),
             brotli |-> BytesValue(r.brotli.cur)],
   diff |-> [size |-> BytesValue(r.size.diff), gzip |-> BytesValue(r.gzip.diff),
             brotli |-> BytesValue(r.brotli.diff)]]

MetricOf(e) == [size |-> e.size, gzip |-> e.gzip, brotli |-> e.brotli]

\* C9: every non-unchanged path has one row; a Modified row shows the
\* subject's metrics and subject minus target, an Added row the subject's
\* metrics twice, a Removed row zeros and the negated target metrics.
C9_RowNumbers ==
  Rendered =>
    LET c == commentBody[1][2] IN
      \A p \in UnionPaths :
        ~IsUnchanged(p) =>
          /\ Cardinality(RowsOf(c, p)) = 1
          /\ LET n == RowNumbers(RowOf(c, p)) IN
               /\ IsModified(p) =>
                    LET s == FileAt(PS.files, p)
                        t == FileAt(TS.files, p)
                    IN /\ n.cur = MetricOf(s)
                       /\ n.diff = [size |-> s.size - t.size,
                                    gzip |-> s.gzip - t.gzip,
                                    brotli |-> s.brotli - t.brotli]
               /\ IsAdded(p) =>
                    /\ n.cur = MetricOf(FileAt(PS.files, p))
                    /\ n.diff = MetricOf(FileAt(PS.files, p))
               /\ IsRemoved(p) =>
                    LET t == FileAt(TS.files, p) IN
                      /\ n.cur = [size |-> 0, gzip |-> 0, brotli |-> 0]
                      /\ n.diff = [size |-> 0 - t.size, gzip |-> 0 - t.gzip,
                                   brotli |-> 0 - t.brotli]

\* C9 witness: a rendered comment with a Modified row whose gzip delta is
\* negative, an Added row and a Removed row.
C9_Witness ==
  /\ Rendered
  /\ \E p \in UnionPaths :
       /\ IsModified(p)
       /\ FileAt(PS.files, p).gzip < FileAt(TS.files, p).gzip
  /\ \E p \in UnionPaths : IsAdded(p)
  /\ \E p \in UnionPaths : IsRemoved(p)

\* C10: the summary says "added" exactly when the subject's totalSize is
\* greater than the target's and "removed" when it is smaller; the three
\* columns show the subject's totals and subject minus target.
C10_SummaryLine ==
  Rendered =>
    LET c == commentBody[1][2] IN
      /\ (c.verb = "added") <=> (PS.totalSize > TS.totalSize)
      /\ (PS.totalSize < TS.totalSize) => c.verb = "removed"
      /\ BytesValue(c.totals.size.cur) = PS.totalSize
      /\ BytesValue(c.totals.gzip.cur) = PS.totalGzip
      /\ BytesValue(c.totals.brotli.cur) = PS.totalBrotli
      /\ BytesValue(c.totals.size.diff) = PS.totalSize - TS.totalSize
      /\ BytesValue(c.totals.gzip.diff) = PS.totalGzip - TS.totalGzip
      /\ BytesValue(c.totals.brotli.diff) = PS.totalBrotli - TS.totalBrotli

\* C10 witness: a rendered comment whose subject is larger uncompressed and
\* smaller gzipped than the target.
C10_Witness ==
  /\ Rendered
  /\ PS.totalSize > TS.totalSize
  /\ PS.totalGzip < TS.totalGzip
  /\ commentBody[1][2].verb = "added"

\* ------------------------------------------------------------------------
\* Claims about getBranchStats (checked under SpecStats)
\* ------------------------------------------------------------------------

\* the path of files[b][i] relative to the workspace root of call b
RelOf(b, i) == SliceFrom(files[b][i].file, Len(Cwd(b)) + 1)

\* C6: in every BranchStats that getBranchStats returns, whatever the order
\* the per-file tasks finished in, totalSize, totalGzip and totalBrotli are
\* the sums of size, gzip and brotli over the entries of files.
C6_TotalsAreSums ==
  bpc["target"] = "returned" =>
    LET st == branchStats["target"] IN
      /\ st.totalSize = SumOf(st.files, 1, "size")
      /\ st.totalGzip = SumOf(st.files, 1, "gzip")
      /\ st.totalBrotli = SumOf(st.files, 1, "brotli")

\* C7: the key of every collected file is its path relative to the branch
\* workspace root, so distinct files of a workspace have distinct keys,
\* wherever the workspace is and whether or not the branch name occurs
\* elsewhere in the absolute path.
C7_KeyIsRelativePath ==
  bpc["target"] = "returned" =>
    LET st == branchStats["target"] IN
      /\ KeySet(st.files) = {RelOf("target", i) : i \in 1..Len(files["target"])}
      /\ Len(st.files) = Len(files["target"])

\* ------------------------------------------------------------------------
\* Claims about run (checked under Spec)
\* ------------------------------------------------------------------------

\* both getBranchStats calls returned and run went on with their results
Compared == targetStats # <<>>

\* C1: when both aggregations succeed and the two totalSize are equal, run
\* makes no listComments, deleteComment or createComment call and reports no
\* failure, whatever the per-file differences are.
C1_EqualTotalsNoOutput ==
  (Compared /\ targetStats[1].totalSize = prStats[1].totalSize) =>
    /\ calls = <<>>
    /\ failed = <<>>
    /\ commentBody = <<>>
    /\ pc = "done"

\* C1 witness: a run has ended after comparing two branches with equal totals
\* and different files.
C1_Witness ==
  /\ Compared
  /\ pc = "done"
  /\ targetStats[1].totalSize = prStats[1].totalSize
  /\ targetStats[1].totalSize > 0
  /\ fileChanges[1].added # <<>>
  /\ fileChanges[1].removed # <<>>

\* C2: with replace_comment true and different totals, every comment the
\* pull request held whose body begins with the marker has been deleted
\* before createComment is called, however many there are.
C2_AllMarkedDeletedBeforeCreate ==
  replaceComment = "true" =>
    \A k \in 1..Len(calls) :
      calls[k].api = "createComment" =>
        \A n \in 1..Len(prior) :
          StartsWithHash(prior[n]) =>
            \E j \in 1..(k - 1) :
              calls[j] = [api |-> "deleteComment", id |-> prior[n].id]

\* C3: with replace_comment false and different totals, a successful run
\* makes no listComments or deleteComment call, leaves every earlier comment
\* as it was and adds exactly one comment, the rendered report.
C3_NoReplaceAddsOne ==
  (/\ replaceComment = "false"
   /\ Compared
   /\ targetStats[1].totalSize # prStats[1].totalSize
   /\ pc = "done"
   /\ failed = <<>>) =>
    /\ calls = <<[api |-> "createComment", id |-> 0]>>
    /\ Len(comments) = Len(prior) + 1
    /\ SubSeq(comments, 1, Len(prior)) = prior
    /\ comments[Len(comments)].body = commentBody[1]

\* C3 witness: a successful run without replacement has ended on a pull
\* request that held a report of an earlier run.
C3_Witness ==
  /\ replaceComment = "false"
  /\ Compared
  /\ targetStats[1].totalSize # prStats[1].totalSize
  /\ pc = "done"
  /\ failed = <<>>
  /\ \E n \in 1..Len(prior) : StartsWithHash(prior[n])
  /\ Len(comments) = Len(prior) + 1

\* ------------------------------------------------------------------------
\* More claims about getStatComment (checked under SpecComment)
\* ------------------------------------------------------------------------

\* the label entry of a count: none for 0, singular for 1, plural otherwise
LabelEntry(count, single, plural) ==
  IF count = 0 THEN <<>>
  ELSE <<[n |-> count, text |-> IF count = 1 THEN single ELSE plural]>>

\* the entries the label of the two file sets has to show, in order
LabelEntries ==
  LabelEntry(Cardinality({p \in UnionPaths : IsModified(p)}), "file changed", "files changed")
  \o LabelEntry(Cardinality({p \in UnionPaths : IsAdded(p)}), "file added", "files added")
  \o LabelEntry(Cardinality({p \in UnionPaths : IsRemoved(p)}), "file removed", "files removed")

\* C11: the collapsible label lists, in the order changed, added, removed,
\* "<n> file(s) <verb>" for exactly the non-zero counts, "file" when n = 1 and
\* "files" otherwise, joined by ", " with no leading, trailing or doubled
\* separator.
C11_LabelText ==
  Rendered =>
    LET label == commentBody[1][2].summary IN
      /\ Len(label) = IF LabelEntries = <<>> THEN 0 ELSE 2 * Len(LabelEntries) - 1
      /\ \A i \in 1..Len(LabelEntries) : label[2 * i - 1] = LabelEntries[i]
      /\ \A i \in 1..(Len(LabelEntries) - 1) : label[2 * i] = [n |-> 0, text |-> ", "]

\* C11 witness: a label of two entries, one singular and one plural
\* ("1 file changed, 2 files added").
C11_Witness ==
  /\ Rendered
  /\ commentBody[1][2].summary =
       <<[n |-> 1, text |-> "file changed"], [n |-> 0, text |-> ", "],
         [n |-> 2, text |-> "files added"]>>

\* C19: for two or more paths getCommonStringStart returns their longest
\* common prefix: what it returns is a prefix of every path of the set, and
\* no longer prefix of a path of the set is a prefix of them all.
C19_LongestCommonPrefix ==
  (Rendered /\ Cardinality(UnionPaths) >= 2) =>
    LET start == commonStart[1] IN
      /\ \A p \in UnionPaths : StartsWith(p, start)
      /\ \A p \in UnionPaths :
           Len(p) > Len(start) =>
             \E q \in UnionPaths : ~StartsWith(q, SliceTo(p, Len(start) + 1))

\* C19 witness: three paths whose longest common prefix, "a", is shorter
\* than the one two of them share and does not end a directory name.
C19_Witness ==
  /\ Rendered
  /\ Cardinality(UnionPaths) = 3
  /\ commonStart = << <<"a">> >>
  /\ \E p, q \in UnionPaths : p # q /\ StartsWith(p, <<"a", "/">>) /\ StartsWith(q, <<"a", "/">>)

\* C22: the common prefix only shortens what is shown: every path of the
\* union starts with it, every row shows a path of the union without exactly
\* that prefix, no two rows show the same name, and which paths get a row,
\* struck or not, is decided on the full paths.
C22_PrefixOnlyShortensNames ==
  Rendered =>
    LET c == commentBody[1][2]
        rows == c.fileColumns
        shown == {p \in UnionPaths : ~IsUnchanged(p)}
    IN /\ \A p \in UnionPaths : StartsWith(p, c.commonFilePath)
       /\ \A i \in 1..Len(rows) :
            LET p == c.commonFilePath \o rows[i].name IN
              /\ p \in shown
              /\ rows[i].strike <=> IsRemoved(p)
       /\ \A i, j \in 1..Len(rows) : rows[i].name = rows[j].name => i = j
       /\ Len(rows) = Cardinality(shown)

\* C22 witness: with the prefix "a/" cut off, a report shows an added and
\* a removed file and leaves out a file that is the same in both branches.
C22_Witness ==
  /\ Rendered
  /\ commentBody[1][2].commonFilePath = <<"a", "/">>
  /\ \E p \in UnionPaths : IsUnchanged(p)
  /\ \E i, j \in 1..Len(commentBody[1][2].fileColumns) :
       /\ commentBody[1][2].fileColumns[i].strike
       /\ ~commentBody[1][2].fileColumns[j].strike

\* ------------------------------------------------------------------------
\* Claims about the workspaces of the two getBranchStats calls (checked
\* under SpecRefs)
\* ------------------------------------------------------------------------

\* path is dir or lies inside it
Under(path, dir) == path = dir \/ StartsWith(path, dir \o <<"/">>)

Other(b) == IF b = "target" THEN "pr" ELSE "target"

\* C12: the two getBranchStats calls of a run own distinct workspace
\* directories: the directory one copies into, runs its commands in and
\* reads its files from is not the directory of the other one, nor inside
\* it, whatever the two branch names are.
C12_DistinctWorkspaces ==
  \A b \in Slots :
    (bpc[b] # "idle" /\ bpc[Other(b)] # "idle") =>
      /\ ~Under(Cwd(b), Cwd(Other(b)))
      /\ \A i \in 1..Len(execs[b]) : ~Under(execs[b][i].cwd, Cwd(Other(b)))
      /\ \A i \in 1..Len(files[b]) : ~Under(files[b][i].file, Cwd(Other(b)))

\* ------------------------------------------------------------------------
\* Claims about the report of a run (checked under SpecReport)
\* ------------------------------------------------------------------------

\* the BranchStats of call b had its tasks ended in the order of its files
InOrderStats(b) == StatsAfter(files[b], Len(files[b]), branch[b])

\* C13: the rendered report is a function of the two sets of files alone:
\* whatever order the getFileStats tasks of a call ended in, the text, the
\* order of its rows included, is the one rendered when they end in the order
\* of the files.
C13_ReportIndependentOfTaskOrder ==
  Rendered =>
    commentBody[1] = getStatComment(InOrderStats("target"), InOrderStats("pr"),
                                    fileDetailsOpen = "true")

\* C21: whenever run renders a report to post (the totals differ), the table
\* of files has at least one row and the collapsible label has at least one
\* entry.
C21_DifferentTotalsShowAFile ==
  Rendered =>
    /\ Len(commentBody[1][2].fileColumns) >= 1
    /\ Len(commentBody[1][2].summary) >= 1

\* ------------------------------------------------------------------------
\* Claims about failures and the end of a run (checked under Spec)
\* ------------------------------------------------------------------------

\* a step of getBranchStats call b has failed: one of its awaits up to globby
\* rejected, or one of its getFileStats tasks did
AggregationFailed(b) ==
  thrown[b] # <<>> \/ \E i \in 1..Len(task[b]) : task[b][i] = "failed"

\* C14: once a step of either getBranchStats call has failed, no comment is
\* listed, deleted or created, nothing is compared or rendered, and the run
\* can only end reported failed, with the message of a call that rejected.
C14_FailedAggregationNeverReported ==
  (\E b \in Slots : AggregationFailed(b)) =>
    /\ calls = <<>>
    /\ comments = prior
    /\ targetStats = <<>>
    /\ prStats = <<>>
    /\ commentBody = <<>>
    /\ pc \in {"getBranchStats", "done"}
    /\ pc = "done" =>
         /\ Len(failed) = 1
         /\ \E b \in Slots : thrown[b] = <<failed[1]>>

\* C14 witness: a getFileStats task of one call failed after the other call
\* had returned its BranchStats, and the run has ended reported failed.
C14_Witness ==
  /\ pc = "done"
  /\ failed = <<"getFileStats">>
  /\ \E b \in Slots :
       /\ bpc[b] = "returned"
       /\ Len(files[b]) > 0
       /\ thrown[Other(b)] = <<"getFileStats">>

\* C15: without GITHUB_TOKEN the run is reported failed before any other
\* work: run never gets past its token check, no getBranchStats call starts
\* (no copy, no git or build command, no file found) and no comment call is
\* made.
C15_NoTokenNoWork ==
  ~env =>
    /\ pc \in {"start", "done"}
    /\ \A b \in Slots :
         bpc[b] = "idle" /\ execs[b] = <<>> /\ files[b] = <<>> /\ task[b] = <<>>
    /\ calls = <<>>
    /\ commentBody = <<>>
    /\ pc = "done" =>
         failed = <<"Missing required environment variables: GITHUB_TOKEN">>

\* C15 witness: a run on a pull request, with a build script given, has
\* ended without a token.
C15_Witness ==
  /\ ~env
  /\ payload
  /\ Len(script) > 0
  /\ pc = "done"
  /\ Len(failed) = 1

\* the comments of the pull request the run has created
Created ==
  {i \in 1..Len(comments) : \A n \in 1..Len(prior) : comments[i].id # prior[n].id}

\* C16: a run on a pull-request event ends in exactly one of three ways:
\* not failed with no comment created (the totals equal), not failed with
\* exactly one comment created (the totals differ), or failed with exactly
\* one message and no comment created; no message follows another and no
\* comment call is made twice.
C16_ExactlyOneOutcome ==
  /\ Len(failed) <= 1
  /\ NoRepeat(calls)
  /\ (payload /\ pc = "done") =>
       \/ /\ failed = <<>>
          /\ Compared
          /\ targetStats[1].totalSize = prStats[1].totalSize
          /\ Created = {}
       \/ /\ failed = <<>>
          /\ Compared
          /\ targetStats[1].totalSize # prStats[1].totalSize
          /\ Cardinality(Created) = 1
          /\ \A i \in Created : comments[i].body = commentBody[1]
       \/ /\ Len(failed) = 1
          /\ Created = {}

\* C16 witness: a run in replace mode has deleted an earlier report and has
\* then failed at createComment.
C16_Witness ==
  /\ payload
  /\ pc = "done"
  /\ failed = <<"createComment">>
  /\ \E k \in 1..Len(calls) : calls[k].api = "deleteComment"
  /\ Len(comments) < Len(prior)

\* ------------------------------------------------------------------------
\* Claims about one getBranchStats call (checked under SpecStats)
\* ------------------------------------------------------------------------

\* C17: the exec calls of a getBranchStats call are git fetch, git checkout
\* and then the commands of the script in their order, each in the workspace
\* of the call and each made only when all before it succeeded; once one
\* has failed it stays the last one and no file is collected; files are
\* collected only after every command succeeded; without a script git fetch
\* and git checkout are the only commands.
C17_BuildStepsInOrder ==
  \A b \in Slots :
    LET done == execs[b] IN
      /\ Len(done) <= 2 + Len(script)
      /\ \A i \in 1..Len(done) :
           /\ done[i].cmd = ExecsDone(b)[i].cmd
           /\ done[i].cwd = Cwd(b)
           /\ i < Len(done) => done[i].ok
      /\ (\E i \in 1..Len(done) : ~done[i].ok) =>
           /\ thrown[b] = <<done[Len(done)].cmd>>
           /\ files[b] = <<>>
           /\ task[b] = <<>>
           /\ branchStats[b] = EmptyStats
      /\ step[b] = Cardinality({i \in 3..Len(done) : done[i].ok})
      /\ bpc[b] \in {"stats", "returned"} => done = ExecsDone(b)
      /\ files[b] # <<>> => done = ExecsDone(b)

\* C17 witness: the first command of a script of two succeeded and the
\* second one failed.
C17_Witness ==
  /\ Len(script) = 2
  /\ Len(execs["target"]) = 4
  /\ execs["target"][3].ok
  /\ ~execs["target"][4].ok
  /\ bpc["target"] = "thrown"

\* C20: when a getBranchStats call has returned, every one of its per-file
\* tasks has finished, and from then on its BranchStats never changes and
\* the call never runs again; what run compares and renders are the two
\* returned objects, unchanged by getStatComment; and commentBody, once
\* getStatComment has returned it, is never rendered anew.
C20_NoMutationAfterReturn ==
  /\ [](\A b \in Slots :
          bpc[b] = "returned" => \A i \in 1..Len(task[b]) : task[b][i] = "done")
  /\ [](Compared =>
          targetStats[1] = branchStats["target"] /\ prStats[1] = branchStats["pr"])
  /\ [][/\ \A b \in Slots :
            bpc[b] = "returned" =>
              /\ bpc'[b] = "returned"
              /\ branchStats'[b] = branchStats[b]
              /\ files'[b] = files[b]
              /\ task'[b] = task[b]
        /\ Compared => (targetStats' = targetStats /\ prStats' = prStats)
        /\ Rendered => commentBody' = commentBody]_vars

\* C20 witness: a run has rendered and posted the report of two branches
\* that both hold a file.
C20_Witness ==
  /\ Rendered
  /\ pc = "done"
  /\ failed = <<>>
  /\ \A b \in Slots : bpc[b] = "returned" /\ Len(branchStats[b].files) > 0

\* ------------------------------------------------------------------------
\* Claims about the comments of the pull request (checked under Spec)
\* ------------------------------------------------------------------------

\* the comment the pull request held with that id is no longer there
Deleted(id) == \A i \in 1..Len(comments) : comments[i].id # id

\* C18: in replace mode a run that posts its report has deleted a comment
\* if and only if its body starts with the marker; no run ever asks for the
\* deletion of a comment without a body or with a body that does not start
\* with the marker; every rendered report starts with the marker.
C18_DeletedIffMarked ==
  /\ \A k \in 1..Len(calls) :
       calls[k].api = "deleteComment" =>
         \E n \in 1..Len(prior) : prior[n].id = calls[k].id /\ StartsWithHash(prior[n])
  /\ \A n \in 1..Len(prior) : Deleted(prior[n].id) => StartsWithHash(prior[n])
  /\ Rendered => commentBody[1][1] = commentHash
  /\ (replaceComment = "true" /\ pc = "done" /\ failed = <<>> /\ Rendered) =>
       \A n \in 1..Len(prior) : StartsWithHash(prior[n]) => Deleted(prior[n].id)

====
